---- MODULE Spec2Model ----
(***************************************************************************)
(* Model of kst-git (src/__main__.py): a working tree, its metadata        *)
(* directory .kst-git (config.json with the change log, and the cached     *)
(* remote snapshot .kst-git/copy) and the remote WebDAV store, driven by   *)
(* the commands init, diff, push and pull.                                 *)
(*                                                                         *)
(* A path is a string, modelled as a sequence of tokens: "/" is the        *)
(* separator and every other token is an indivisible piece of a name, so   *)
(* <<"x", ".kst-git">> is the file name "x.kst-git" and the substring      *)
(* test of generate_file_list is a test on tokens.                         *)
(***************************************************************************)
EXTENDS Integers, Sequences, FiniteSets, TLC

\* ---------------------------------------------------------------- bounds
MaxClock == 1       \* commits recorded in one behaviour
MaxFaults == 1      \* commands during which the transport or the disk fails

\* ----------------------------------------------------------------- paths
KST == ".kst-git"
SEP == "/"

FA == <<"a">>
FB == <<"d", SEP, "b">>
FK == <<"x", KST>>
FC == <<"d", SEP, "e", SEP, "c">>
CFG == <<KST, SEP, "config.json">>
COPY == <<KST, SEP, "copy">>

UserPaths == {FA, FB, FK, FC}

RemoteRoot == <<"r">>

\* byte contents of a file; Absent: no file at the path
Absent == "-"
Bytes == {"x", "y"}
Contents(p) == IF p = FA THEN Bytes ELSE {"x"}

NoFile == [none |-> TRUE]
NoDir == [exists |-> FALSE]
\* a config.json cut short by a write that failed after open(..., "w")
Corrupt == [torn |-> TRUE]

\* os.path.join(a, b) for a relative b
Join(a, b) == IF a = <<>> THEN b ELSE a \o <<SEP>> \o b

\* positions of the separator in p
SepPos(p) == {i \in 1..Len(p) : p[i] = SEP}

Max(S) == CHOOSE m \in S : \A n \in S : n <= m
Min(S) == CHOOSE m \in S : \A n \in S : m <= n

\* os.path.dirname(p)
Dirname(p) == IF SepPos(p) = {} THEN <<>> ELSE SubSeq(p, 1, Max(SepPos(p)) - 1)

\* the entry of os.listdir(root) under which the relative path p lies
TopItem(p) == IF SepPos(p) = {} THEN p ELSE SubSeq(p, 1, Min(SepPos(p)) - 1)

\* Python's  s in p  for a one-token s
Contains(p, s) == \E i \in 1..Len(p) : p[i] = s

\* ----------------------------------------------------------------- trees
\* the files of a tree outside the metadata: path -> content or Absent
EmptyTree == [p \in UserPaths |-> Absent]
FilesOf(t) == {p \in UserPaths : t[p] # Absent}

VARIABLES
    local,      \* working tree outside .kst-git: path -> content
    cfg,        \* .kst-git/config.json: NoFile or [path, changes]
    copy,       \* .kst-git/copy: NoDir or [exists, files, cfg]
    remote,     \* the WebDAV store under the remote root: [dirs, files, cfg]
    clock,      \* datetime.now(), advanced by every recorded commit
    faults,     \* commands so far during which transport or disk failed
    lastOp      \* the command that ran last, its outcome and what it reported

vars == <<local, cfg, copy, remote, clock, faults, lastOp>>

NoSets == [added |-> {}, deleted |-> {}, modified |-> {}]

\* outcomes of a diff that got its snapshot and classified the paths
Classified == {"nochanges", "aborted", "recorded"}
DiffRan(o) == o.op = "diff" /\ o.outcome \in Classified

\* the commands that directly led to this one, as far as they form the
\* sequence diff, push, diff: a push remembers the outcome of the diff right
\* before it and whether that diff staged a removal, a classifying diff
\* remembers the push right before it when every upload of it succeeded
Chain(name, outcome) ==
    IF name = "push" /\ DiffRan(lastOp)
    THEN <<lastOp.outcome,
           IF lastOp.sets.deleted = {} THEN "nodel" ELSE "del">>
    ELSE IF /\ name = "diff" /\ outcome \in Classified
            /\ lastOp.op = "push" /\ lastOp.outcome = "ok"
            /\ lastOp.failed = {}
    THEN lastOp.chain \o <<"push">>
    ELSE <<>>

\* what a command echoes: done and failed are the paths of the "Uploaded:"
\* and "Error uploading" lines of push
\* again: a classifying diff that directly follows a classifying diff
Report(name, outcome, sets, done, failed) ==
    [op |-> name, outcome |-> outcome, sets |-> sets,
     done |-> done, failed |-> failed,
     again |-> name = "diff" /\ outcome \in Classified /\ DiffRan(lastOp),
     chain |-> Chain(name, outcome)]

Op(name, outcome, sets) == Report(name, outcome, sets, {}, {})

\* every file of a store (remote or snapshot) as relative path -> content;
\* the content of config.json is the config value itself
StoreFiles(s) == FilesOf(s.files) \cup (IF s.cfg = NoFile THEN {} ELSE {CFG})
StoreContent(s, p) == IF p = CFG THEN s.cfg ELSE s.files[p]

\* a store restricted to the files in S
Restrict(s, S) ==
    [files |-> [p \in UserPaths |-> IF p \in S THEN s.files[p] ELSE Absent],
     cfg |-> IF CFG \in S THEN s.cfg ELSE NoFile]

Init ==
    /\ local = EmptyTree
    /\ cfg = NoFile
    /\ copy = NoDir
    /\ remote = [dirs |-> {}, files |-> EmptyTree, cfg |-> NoFile]
    /\ clock = 0
    /\ faults = 0
    /\ lastOp = [op |-> "start", outcome |-> "ok", sets |-> NoSets,
                 done |-> {}, failed |-> {}, again |-> FALSE, chain |-> <<>>]

\* the user writes a file of the working tree
WriteLocal(p, c) ==
    /\ local[p] # c
    /\ local' = [local EXCEPT ![p] = c]
    /\ lastOp' = Op("edit", "ok", NoSets)
    /\ UNCHANGED <<cfg, copy, remote, clock, faults>>

\* the user deletes a file of the working tree
DeleteLocal(p) ==
    /\ local[p] # Absent
    /\ local' = [local EXCEPT ![p] = Absent]
    /\ lastOp' = Op("edit", "ok", NoSets)
    /\ UNCHANGED <<cfg, copy, remote, clock, faults>>

\* ------------------------------------------------- the WebDAV collaborator
\* directories of the remote store, relative to the remote root
RootDir == <<>>

\* how the transport behaves during one call sequence
Nets == {"ok", "down", "drop"}

\* a command during which the transport fails counts as one fault
Faulty(failed) ==
    /\ failed => faults < MaxFaults
    /\ faults' = IF failed THEN faults + 1 ELSE faults

\* client.is_dir(remote_path) succeeds
Reachable(net) == net # "down" /\ RootDir \in remote.dirs

\* client.download_directory(remote_path, dest): raises before touching dest
\* when the remote root cannot be checked; otherwise removes dest, creates
\* it again and downloads the remote files one by one into it, raising at
\* the first download that fails (S: the files already written by then)
DownloadRaises(net) == ~Reachable(net) \/ net = "drop"
DownloadCuts(net) ==
    IF net = "drop" THEN (SUBSET StoreFiles(remote)) \ {StoreFiles(remote)}
    ELSE {StoreFiles(remote)}
\* a download that writes into the old snapshot without replacing it
download_directory_keep(S) ==
    [files |-> [p \in UserPaths |->
                   IF p \in S \/ ~copy.exists THEN Restrict(remote, S).files[p]
                   ELSE copy.files[p]],
     cfg |-> Restrict(remote, S).cfg]

download_directory(S) == Restrict(remote, S)

\* ---------------------------------------------------------- config.json
\* a command that found no config.json although there is one
Initialised_always == TRUE

\* open(config_path, "r") at the top of diff, push and pull
Initialised == cfg # NoFile

\* json.load(f) of the opened file
Parses == cfg # Corrupt

\* how the disk behaves when diff writes config.json
Disks == {"ok", "denied", "full"}

\* lines 192-193: open(config_path, "w") truncates the file, json.dump
\* writes the new log into it
Persist(new, disk) ==
    IF disk = "ok" THEN new
    ELSE IF disk = "denied" THEN cfg
    ELSE Corrupt

\* ------------------------------------------------------------------ init
\* init: writes a fresh config.json; with "Create new Path" the project
\* directory is made on the server first (a failing mkdir raises)
init(create, net) ==
    /\ Faulty(net # "ok")
    /\ UNCHANGED clock
    /\ LET mk == create /\ RootDir \notin remote.dirs
       IN  IF mk /\ net # "ok"
           THEN /\ lastOp' = Op("init", "raised", NoSets)
                /\ UNCHANGED <<cfg, remote>>
           ELSE /\ remote' = IF mk THEN [remote EXCEPT !.dirs = @ \cup {RootDir}]
                                   ELSE remote
                /\ cfg' = [path |-> RemoteRoot, changes |-> <<>>]
                /\ lastOp' = Op("init", "ok", NoSets)
    /\ UNCHANGED <<local, copy>>

\* ------------------------------------------------------------------ diff
\* the files os.walk(cwd) finds, relative to cwd
LocalWalk(snap) ==
    FilesOf(local)
        \cup (IF cfg = NoFile THEN {} ELSE {CFG})
        \cup {Join(COPY, q) : q \in StoreFiles(snap)}

\* generate_file_list: the filter applied to the walked relative paths
Listed(rel) == ~Contains(rel, KST) /\ rel # <<KST>> /\ rel # <<>>
generate_file_list(walk) == {rel \in walk : Listed(rel)}

\* filecmp.cmp(f1, f2, shallow=False)
filecmp(c1, c2) == c1 = c2

added_files(L, R) == L \ R
deleted_files(L, R) == R \ L
common_files(L, R) == L \cap R
modified_files(L, R, snap) ==
    {f \in common_files(L, R) : ~filecmp(local[f], snap.files[f])}

\* lines 147-151: the paths handed to filecmp.cmp; the call is not inside a
\* try, so an OSError of one comparison ends the command
Compared(snap) ==
    common_files(generate_file_list(LocalWalk(snap)),
                 generate_file_list(StoreFiles(snap)))

\* the sets diff computes against the fetched snapshot snap
DiffSets(snap) ==
    LET L == generate_file_list(LocalWalk(snap))
        R == generate_file_list(StoreFiles(snap))
    IN  [added |-> added_files(L, R),
         deleted |-> deleted_files(L, R),
         modified |-> modified_files(L, R, snap)]

\* a staging step that leaves the fetched snapshot as it is
Stage_skip(snap, sets) == snap

\* lines 154-176: copy added and modified files into the snapshot, remove
\* the deleted ones from it
Stage(snap, sets) ==
    [snap EXCEPT !.files =
        [f \in UserPaths |->
            IF f \in sets.added \cup sets.modified THEN local[f]
            ELSE IF f \in sets.deleted THEN Absent
            ELSE @[f]]]

NoChanges(sets) == sets.added = {} /\ sets.deleted = {} /\ sets.modified = {}

Messages == {"m"}
Abort == "^C"
Answers == Messages \cup {Abort}

\* a record with the added and the deleted list exchanged
commit_data_swapped(sets, msg) ==
    [message |-> msg, added |-> sets.deleted, deleted |-> sets.added,
     modified |-> sets.modified, timestamp |-> clock]

commit_data(sets, msg) ==
    [message |-> msg, added |-> sets.added, deleted |-> sets.deleted,
     modified |-> sets.modified, timestamp |-> clock]

\* a commit prompted for and recorded without looking at the sets
Recorded_always(sets, answer) == answer # Abort

\* lines 178-194: what diff does with the classified sets
Recorded(sets, answer) == ~NoChanges(sets) /\ answer # Abort

AsDir(s) == [exists |-> TRUE, files |-> s.files, cfg |-> s.cfg]

\* the common files that cannot be read when diff runs
Unreadable == {{}, {FA}}

\* a diff whose staging step writes to the remote store as well
diff_uploading(net, S, answer, bad, disk) ==
    /\ bad # {} => (Initialised /\ Parses /\ ~DownloadRaises(net))
    /\ disk # "ok" =>
           /\ Initialised /\ Parses /\ ~DownloadRaises(net) /\ bad = {}
           /\ Recorded(DiffSets(download_directory(S)), answer)
    /\ Faulty(net # "ok" \/ bad # {} \/ disk # "ok")
    /\ IF ~Initialised
       THEN /\ lastOp' = Op("diff", "noconfig", NoSets)
            /\ UNCHANGED <<local, cfg, copy, remote, clock>>
       ELSE IF ~Parses
       THEN /\ lastOp' = Op("diff", "badconfig", NoSets)
            /\ UNCHANGED <<local, cfg, copy, remote, clock>>
       ELSE IF ~Reachable(net)
       THEN /\ copy' = NoDir
            /\ lastOp' = Op("diff", "fetchfailed", NoSets)
            /\ UNCHANGED <<local, cfg, remote, clock>>
       ELSE IF DownloadRaises(net)
       THEN /\ copy' = AsDir(download_directory(S))
            /\ lastOp' = Op("diff", "fetchfailed", NoSets)
            /\ UNCHANGED <<local, cfg, remote, clock>>
       ELSE IF bad # {}
       THEN /\ bad \subseteq Compared(download_directory(S))
            /\ copy' = AsDir(download_directory(S))
            /\ lastOp' = Op("diff", "cmpfailed", NoSets)
            /\ UNCHANGED <<local, cfg, remote, clock>>
       ELSE LET snap == download_directory(S)
                sets == DiffSets(snap)
            IN  /\ copy' = AsDir(Stage(snap, sets))
                /\ IF Recorded(sets, answer)
                   THEN /\ cfg' = Persist([cfg EXCEPT !.changes =
                                       Append(@, commit_data(sets, answer))],
                                          disk)
                        /\ IF disk = "ok"
                           THEN /\ clock < MaxClock
                                /\ clock' = clock + 1
                                /\ lastOp' = Op("diff", "recorded", sets)
                           ELSE /\ lastOp' = Op("diff", "persistfailed", sets)
                                /\ UNCHANGED clock
                   ELSE /\ lastOp' = Op("diff",
                                        IF NoChanges(sets) THEN "nochanges"
                                        ELSE "aborted", sets)
                        /\ UNCHANGED <<cfg, clock>>
                /\ remote' = [remote EXCEPT !.files = Stage(snap, sets).files]
                /\ UNCHANGED local

diff(net, S, answer, bad, disk) ==
    /\ bad # {} => (Initialised /\ Parses /\ ~DownloadRaises(net))
    /\ disk # "ok" =>
           /\ Initialised /\ Parses /\ ~DownloadRaises(net) /\ bad = {}
           /\ Recorded(DiffSets(download_directory(S)), answer)
    /\ Faulty(net # "ok" \/ bad # {} \/ disk # "ok")
    /\ IF ~Initialised
       THEN /\ lastOp' = Op("diff", "noconfig", NoSets)
            /\ UNCHANGED <<local, cfg, copy, remote, clock>>
       ELSE IF ~Parses
       THEN /\ lastOp' = Op("diff", "badconfig", NoSets)
            /\ UNCHANGED <<local, cfg, copy, remote, clock>>
       ELSE IF ~Reachable(net)
       THEN /\ copy' = NoDir
            /\ lastOp' = Op("diff", "fetchfailed", NoSets)
            /\ UNCHANGED <<local, cfg, remote, clock>>
       ELSE IF DownloadRaises(net)
       THEN /\ copy' = AsDir(download_directory(S))
            /\ lastOp' = Op("diff", "fetchfailed", NoSets)
            /\ UNCHANGED <<local, cfg, remote, clock>>
       ELSE IF bad # {}
       THEN /\ bad \subseteq Compared(download_directory(S))
            /\ copy' = AsDir(download_directory(S))
            /\ lastOp' = Op("diff", "cmpfailed", NoSets)
            /\ UNCHANGED <<local, cfg, remote, clock>>
       ELSE LET snap == download_directory(S)
                sets == DiffSets(snap)
            IN  /\ copy' = AsDir(Stage(snap, sets))
                /\ IF Recorded(sets, answer)
                   THEN /\ cfg' = Persist([cfg EXCEPT !.changes =
                                       Append(@, commit_data(sets, answer))],
                                          disk)
                        /\ IF disk = "ok"
                           THEN /\ clock < MaxClock
                                /\ clock' = clock + 1
                                /\ lastOp' = Op("diff", "recorded", sets)
                           ELSE /\ lastOp' = Op("diff", "persistfailed", sets)
                                /\ UNCHANGED clock
                   ELSE /\ lastOp' = Op("diff",
                                        IF NoChanges(sets) THEN "nochanges"
                                        ELSE "aborted", sets)
                        /\ UNCHANGED <<cfg, clock>>
                /\ UNCHANGED <<local, remote>>

\* ------------------------------------------------------------------ push
\* what the transport does to the two calls made for one file
Fates == {"ok", "mkdir", "upload"}

\* client.mkdir(dir): the collection is created when the call gets through
\* and the parent collection exists (the parent of the remote root does)
mkdir(rem, dir, fate) ==
    IF fate # "mkdir" /\ (dir = RootDir \/ Dirname(dir) \in rem.dirs)
    THEN [rem EXCEPT !.dirs = @ \cup {dir}]
    ELSE rem

\* client.upload_file(remote_file_path, local_file_path): raises when the
\* call fails or the parent collection does not exist
Uploads(rem, f, fate) == fate # "upload" /\ Dirname(f) \in rem.dirs

upload_file(rem, f, content) ==
    IF f = CFG THEN [rem EXCEPT !.cfg = content]
    ELSE [rem EXCEPT !.files[f] = content]

\* a file whose directory is made and whose content is never sent
push_file_dry(rem, snap, f, fate) == mkdir(rem, Dirname(f), fate)

\* lines 77-87 for one file of the snapshot
push_file(rem, snap, f, fate) ==
    LET made == mkdir(rem, Dirname(f), fate)
    IN  IF Uploads(made, f, fate)
        THEN upload_file(made, f, StoreContent(snap, f))
        ELSE made

\* os.walk(copy_dir) is top-down: the files of a directory come before the
\* files of its subdirectories
WalkNext(todo) ==
    CHOOSE f \in todo : \A g \in todo : Len(Dirname(f)) <= Len(Dirname(g))

\* a loop that ends at the first file whose upload raises
RECURSIVE push_walk_abort(_, _, _, _)
push_walk_abort(acc, snap, todo, fates) ==
    IF todo = {} THEN acc
    ELSE LET f == WalkNext(todo)
             made == mkdir(acc.rem, Dirname(f), fates[f])
             ok == Uploads(made, f, fates[f])
         IN  IF ok
             THEN push_walk_abort([rem |-> push_file(acc.rem, snap, f, fates[f]),
                                   done |-> acc.done \cup {f},
                                   failed |-> acc.failed],
                                  snap, todo \ {f}, fates)
             ELSE [rem |-> made, done |-> acc.done,
                   failed |-> acc.failed \cup {f}]

\* lines 75-87: the loop over the snapshot; acc holds the remote store and
\* the paths echoed as uploaded and as failed so far
RECURSIVE push_walk(_, _, _, _)
push_walk(acc, snap, todo, fates) ==
    IF todo = {} THEN acc
    ELSE LET f == WalkNext(todo)
             made == mkdir(acc.rem, Dirname(f), fates[f])
             ok == Uploads(made, f, fates[f])
         IN  push_walk([rem |-> push_file(acc.rem, snap, f, fates[f]),
                        done |-> IF ok THEN acc.done \cup {f} ELSE acc.done,
                        failed |-> IF ok THEN acc.failed
                                   ELSE acc.failed \cup {f}],
                       snap, todo \ {f}, fates)

\* a snapshot pushed with the config it was fetched with
WithConfig_stale(c) ==
    [exists |-> TRUE,
     files |-> IF c.exists THEN c.files ELSE EmptyTree,
     cfg |-> IF c.exists THEN c.cfg ELSE NoFile]

\* lines 60-63: the snapshot directory with the repository config copied in
WithConfig(c) ==
    [exists |-> TRUE,
     files |-> IF c.exists THEN c.files ELSE EmptyTree,
     cfg |-> cfg]

\* a push that also removes from the remote store what the snapshot lacks
push_mirror(fates) ==
    /\ Faulty(\E f \in DOMAIN fates : fates[f] # "ok")
    /\ UNCHANGED clock
    /\ IF ~Initialised
       THEN /\ lastOp' = Op("push", "noconfig", NoSets)
            /\ UNCHANGED <<local, cfg, copy, remote>>
       ELSE IF ~Parses
       THEN /\ lastOp' = Op("push", "badconfig", NoSets)
            /\ UNCHANGED <<local, cfg, copy, remote>>
       ELSE LET snap == WithConfig(copy)
                end == push_walk([rem |-> remote, done |-> {}, failed |-> {}],
                                 snap, StoreFiles(snap), fates)
            IN  /\ copy' = snap
                /\ remote' = [end.rem EXCEPT !.files =
                                  [p \in UserPaths |->
                                      IF p \in StoreFiles(snap) THEN @[p]
                                      ELSE Absent]]
                /\ lastOp' = Report("push", "ok",
                                     IF DiffRan(lastOp) THEN lastOp.sets
                                     ELSE NoSets,
                                     end.done, end.failed)
                /\ UNCHANGED <<local, cfg>>

push(fates) ==
    /\ Faulty(\E f \in DOMAIN fates : fates[f] # "ok")
    /\ UNCHANGED clock
    /\ IF ~Initialised
       THEN /\ lastOp' = Op("push", "noconfig", NoSets)
            /\ UNCHANGED <<local, cfg, copy, remote>>
       ELSE IF ~Parses
       THEN /\ lastOp' = Op("push", "badconfig", NoSets)
            /\ UNCHANGED <<local, cfg, copy, remote>>
       ELSE LET snap == WithConfig(copy)
                end == push_walk([rem |-> remote, done |-> {}, failed |-> {}],
                                 snap, StoreFiles(snap), fates)
            IN  /\ copy' = snap
                /\ remote' = end.rem
                /\ lastOp' = Report("push", "ok",
                                     IF DiffRan(lastOp) THEN lastOp.sets
                                     ELSE NoSets,
                                     end.done, end.failed)
                /\ UNCHANGED <<local, cfg>>

\* ------------------------------------------------------------------ pull
\* lines 101-107: every entry of cwd but .kst-git is removed
RemoveLocal == [f \in UserPaths |->
                   IF TopItem(f) # <<KST>> THEN Absent ELSE local[f]]

pull(net, S) ==
    /\ Faulty(net # "ok")
    /\ UNCHANGED clock
    /\ IF ~Initialised
       THEN /\ lastOp' = Op("pull", "noconfig", NoSets)
            /\ UNCHANGED <<local, cfg, copy, remote>>
       ELSE IF ~Parses
       THEN /\ lastOp' = Op("pull", "badconfig", NoSets)
            /\ UNCHANGED <<local, cfg, copy, remote>>
       ELSE IF ~Reachable(net)
       THEN /\ local' = RemoveLocal
            /\ lastOp' = Op("pull", "failed", NoSets)
            /\ UNCHANGED <<cfg, copy, remote>>
       ELSE LET got == download_directory(S)
            IN  /\ local' = got.files
                /\ cfg' = got.cfg
                /\ copy' = NoDir
                /\ lastOp' = Op("pull", IF DownloadRaises(net) THEN "failed"
                                        ELSE "ok", NoSets)
                /\ UNCHANGED <<remote>>

\* the files the user edits
EditPaths == {FA, FK}

Next ==
    \/ \E fates \in [StoreFiles(WithConfig(copy)) -> Fates] : push(fates)
    \/ \E net \in Nets : \E S \in DownloadCuts(net) : pull(net, S)
    \/ \E create \in BOOLEAN : \E net \in Nets : init(create, net)
    \/ \E net \in Nets : \E S \in DownloadCuts(net) :
           \E answer \in Answers : \E bad \in Unreadable :
               \E disk \in Disks : diff(net, S, answer, bad, disk)
    \/ \E p \in EditPaths : \E c \in Contents(p) : WriteLocal(p, c)
    \/ \E p \in EditPaths : DeleteLocal(p)

Spec == Init /\ [][Next]_vars

\* the same commands run on a working tree of nested directories
DeepPaths == {FB, FC}

NextDeep ==
    \/ \E fates \in [StoreFiles(WithConfig(copy)) -> Fates] : push(fates)
    \/ \E net \in Nets : \E S \in DownloadCuts(net) : pull(net, S)
    \/ \E create \in BOOLEAN : \E net \in Nets : init(create, net)
    \/ \E net \in Nets : \E S \in DownloadCuts(net) :
           \E answer \in Answers : \E bad \in Unreadable :
               \E disk \in Disks : diff(net, S, answer, bad, disk)
    \/ \E p \in DeepPaths : \E c \in Contents(p) : WriteLocal(p, c)
    \/ \E p \in DeepPaths : DeleteLocal(p)

SpecDeep == Init /\ [][NextDeep]_vars
\* ================================================================ claims
\* the snapshot directory right after a complete fetch of the remote store
Mirror == AsDir(Restrict(remote, StoreFiles(remote)))

IsPrefix(s, t) == Len(s) <= Len(t) /\ SubSeq(t, 1, Len(s)) = s

\* C1: a pull whose remote listing or download fails leaves the working
\* tree as it was (same paths, same contents).
C1_FailedPullKeepsTree ==
    [][(lastOp'.op = "pull" /\ lastOp'.outcome = "failed") => local' = local]_vars

\* C2: the change log is append-only: whatever command runs, the log
\* persisted before it is a prefix of the log persisted after it.
C2_LogAppendOnly ==
    [][cfg # NoFile =>
          (cfg' # NoFile /\ IsPrefix(cfg.changes, cfg'.changes))]_vars

\* C3 as stated: the second of two diffs run in a row finds empty added,
\* deleted and modified sets.
C3_SecondDiffEmpty ==
    [][(DiffRan(lastOp) /\ DiffRan(lastOp')) => NoChanges(lastOp'.sets)]_vars

\* C3 as amended: the second of two diffs run in a row, with no other
\* operation and no local change in between, finds the same added, deleted
\* and modified sets as the first.
C3_SecondDiffSame ==
    [][(DiffRan(lastOp) /\ DiffRan(lastOp')) => lastOp'.sets = lastOp.sets]_vars

C3_Witness ==
    /\ lastOp.op = "diff"
    /\ lastOp.again
    /\ lastOp.sets.added = {FA}

\* C4: a diff that ends without appending a CommitRecord leaves the cached
\* snapshot exactly the freshly fetched remote state and the log unchanged.
C4_NoStagingUnlessRecorded ==
    [][(lastOp'.op = "diff" /\ lastOp'.outcome \in {"nochanges", "aborted"})
          => (copy' = Mirror /\ cfg' = cfg)]_vars

\* C5: a successful pull leaves .kst-git (the repository config and the
\* cached snapshot) as before and makes the files outside .kst-git equal to
\* the remote store's files outside .kst-git.
C5_PullKeepsMetadata ==
    [][(lastOp'.op = "pull" /\ lastOp'.outcome = "ok")
          => (cfg' = cfg /\ copy' = copy /\ local' = remote.files)]_vars

\* C6: the sets of a diff partition the paths of working tree and fetched
\* snapshot: added = local minus snapshot, deleted = snapshot minus local,
\* modified within the common paths, and every path of either tree in
\* exactly one of added, deleted, modified, unmodified.
C6_Partition ==
    DiffRan(lastOp) =>
        LET W == FilesOf(local)
            R == FilesOf(remote.files)
            unmodified == {p \in W \cap R : local[p] = remote.files[p]}
            classes == <<lastOp.sets.added, lastOp.sets.deleted,
                         lastOp.sets.modified, unmodified>>
        IN  /\ lastOp.sets.added = W \ R
            /\ lastOp.sets.deleted = R \ W
            /\ lastOp.sets.modified \subseteq W \cap R
            /\ lastOp.sets.added \cap lastOp.sets.deleted = {}
            /\ \A p \in W \cup R :
                   Cardinality({i \in 1..4 : p \in classes[i]}) = 1

\* C7: a diff whose added, deleted and modified sets are all empty appends
\* no CommitRecord, does not rewrite the config and leaves the snapshot as
\* fetched.
C7_EmptyDiffNoEffect ==
    [][(DiffRan(lastOp') /\ NoChanges(lastOp'.sets))
          => (cfg' = cfg /\ copy' = Mirror)]_vars

C7_Witness ==
    /\ lastOp.op = "diff"
    /\ lastOp.outcome = "nochanges"
    /\ local[FA] # Absent
    /\ copy.files[FA] = local[FA]
    /\ Len(cfg.changes) > 0

\* C8: recording a non-empty diff appends exactly one CommitRecord holding
\* the message and the sets of that diff, copies every added and modified
\* file into the snapshot and removes every deleted path from it.
C8_RecordStages ==
    [][(lastOp'.op = "diff" /\ lastOp'.outcome = "recorded") =>
          /\ ~NoChanges(lastOp'.sets)
          /\ Len(cfg'.changes) = Len(cfg.changes) + 1
          /\ IsPrefix(cfg.changes, cfg'.changes)
          /\ LET rec == cfg'.changes[Len(cfg'.changes)]
             IN  /\ rec.added = lastOp'.sets.added
                 /\ rec.deleted = lastOp'.sets.deleted
                 /\ rec.modified = lastOp'.sets.modified
                 /\ rec.message \in Messages
          /\ \A f \in lastOp'.sets.added \cup lastOp'.sets.modified :
                 copy'.files[f] = local[f] /\ local[f] # Absent
          /\ \A f \in lastOp'.sets.deleted : copy'.files[f] = Absent]_vars

C8_Witness ==
    /\ lastOp.op = "diff"
    /\ lastOp.outcome = "recorded"
    /\ lastOp.sets.deleted = {FA}
    /\ Len(cfg.changes) = 1

\* C9: no run of diff changes the remote store.
C9_DiffKeepsRemote ==
    [][lastOp'.op = "diff" => remote' = remote]_vars

C9_Witness ==
    /\ lastOp.op = "diff"
    /\ lastOp.outcome = "recorded"
    /\ copy.files # remote.files

\* C10: a diff whose snapshot fetch fails appends no CommitRecord and leaves
\* no snapshot file on disk.
C10_FailedFetchLeavesNoSnapshot ==
    [][(lastOp'.op = "diff" /\ lastOp'.outcome = "fetchfailed")
          => (cfg' = cfg /\ (copy'.exists => StoreFiles(copy') = {}))]_vars
\* C11: push is best-effort per file: every file of the snapshot is tried
\* and echoed either as uploaded or as failed, whatever happens to the other
\* files, and every file echoed as uploaded is on the remote store.
C11_PushBestEffort ==
    (lastOp.op = "push" /\ lastOp.outcome = "ok") =>
        /\ lastOp.done \cup lastOp.failed = StoreFiles(copy)
        /\ lastOp.done \cap lastOp.failed = {}
        /\ \A f \in lastOp.done :
               StoreContent(remote, f) = StoreContent(copy, f)

C11_Witness ==
    /\ lastOp.op = "push"
    /\ lastOp.outcome = "ok"
    /\ lastOp.failed # {}
    /\ lastOp.done # {}
\* C12: an unreadable common file does not end a diff run: every diff that
\* fetched its snapshot goes on to classify the paths.
C12_CompareErrorsPerPath ==
    (lastOp.op = "diff" /\ lastOp.outcome \notin {"noconfig", "fetchfailed"})
        => DiffRan(lastOp)
KstComponent(p) ==
    \E i \in 1..Len(p) :
        /\ p[i] = KST
        /\ i = 1 \/ p[i - 1] = SEP
        /\ i = Len(p) \/ p[i + 1] = SEP

\* C15: the file lister drops exactly the paths equal to or under .kst-git:
\* a file of the working tree is listed if and only if no component of its
\* path is .kst-git.
C15_ListerExcludesOnlyMetadata ==
    \A rel \in LocalWalk(IF copy.exists THEN copy
                         ELSE [files |-> EmptyTree, cfg |-> NoFile]) :
        Listed(rel) <=> ~KstComponent(rel)
\* the directories above p, below the remote root
Ancestors(p) == {SubSeq(p, 1, i - 1) : i \in SepPos(p)}

\* C16: push makes every parent directory of every snapshot file exist on
\* the server, at any depth: after a push that met no transport failure on
\* an existing remote root, all directories above each file of the snapshot
\* are on the remote store.
C16_PushMakesAllParents ==
    (/\ lastOp.op = "push" /\ lastOp.outcome = "ok"
     /\ faults = 0 /\ RootDir \in remote.dirs) =>
        \A f \in StoreFiles(copy) : Ancestors(f) \subseteq remote.dirs
\* C17: after a push in which nothing failed, every file of the snapshot is
\* on the remote store with the same content, and the remote store holds a
\* config.json equal to the local one.
C17_CleanPushUploadsAll ==
    (lastOp.op = "push" /\ lastOp.outcome = "ok" /\ lastOp.failed = {}) =>
        /\ \A f \in StoreFiles(copy) :
               /\ f \in StoreFiles(remote)
               /\ StoreContent(remote, f) = StoreContent(copy, f)
        /\ remote.cfg = cfg

C17_Witness ==
    /\ lastOp.op = "push"
    /\ lastOp.outcome = "ok"
    /\ lastOp.failed = {}
    /\ {FA, CFG} \subseteq lastOp.done
    /\ remote.files[FA] = local[FA]
    /\ Len(remote.cfg.changes) = 1
\* C18: after a diff that found no changes or recorded its commit, the
\* snapshot mirrors the working tree: the same paths outside the metadata
\* with the same contents.
C18_SnapshotMirrorsTree ==
    (lastOp.op = "diff" /\ lastOp.outcome \in {"nochanges", "recorded"}) =>
        /\ copy.exists
        /\ \A f \in UserPaths : copy.files[f] = local[f]
\* C19: push never removes anything from the remote store: every file and
\* directory there before a push is there after it, so the paths a diff
\* staged as deleted are classified as deleted again by the diff that
\* follows the push.
C19_PushRemovesNothing ==
    [][/\ lastOp'.op = "push" =>
              /\ StoreFiles(remote) \subseteq StoreFiles(remote')
              /\ remote.dirs \subseteq remote'.dirs
       /\ (lastOp.op = "push" /\ DiffRan(lastOp')) =>
              lastOp.sets.deleted \subseteq lastOp'.sets.deleted]_vars

C19_Witness ==
    /\ lastOp.op = "diff"
    /\ lastOp.chain = <<"recorded", "del", "push">>
    /\ lastOp.sets.deleted # {}
    /\ lastOp.sets.deleted \subseteq StoreFiles(remote)
\* C20: diff then push converges: when a diff recorded changes with nothing
\* deleted, the push right after it uploaded every file, and the next
\* command is a diff, that diff finds no added, deleted or modified path
\* and appends no record.
C20_DiffPushConverges ==
    [][(/\ lastOp.op = "push" /\ lastOp.outcome = "ok"
        /\ lastOp.chain = <<"recorded", "nodel">>
        /\ lastOp.failed = {}
        /\ DiffRan(lastOp')) =>
           /\ NoChanges(lastOp'.sets)
           /\ lastOp'.outcome = "nochanges"
           /\ cfg' = cfg]_vars

C20_Witness ==
    /\ lastOp.op = "diff"
    /\ lastOp.chain = <<"recorded", "nodel", "push">>
    /\ lastOp.outcome = "nochanges"
    /\ FilesOf(local) # {}
    /\ Len(cfg.changes) = 1
====
